---- MODULE Spec2Model ----
(***************************************************************************)
(* Model of the fsm package: machine.go (Machine, NewMachine, the queries, *)
(* Event and the four callback dispatchers), event.go (the Event context,  *)
(* Cancel, Async) and transition.go (the transitioner that commits a       *)
(* pending transition).                                                    *)
(*                                                                         *)
(* Go strings are modelled as sequences of one-character strings so that   *)
(* strings.HasPrefix and strings.Trim are computed as Go computes them.    *)
(* A Go map is modelled as a TLA+ function; `range` over a map visits the  *)
(* keys in an order the runtime chooses, which is modelled as a choice.    *)
(* A callback is user code: what it does to the Event context it receives  *)
(* (nothing, Cancel(), Cancel(err), Async(), e.Err = err) is chosen at     *)
(* every invocation.                                                       *)
(*                                                                         *)
(* Two specifications.  Spec takes each call of the machine as one step:   *)
(* the calls made one after the other.  LockSpec takes the calls statement *)
(* by statement, with the goroutines that make them, Machine.eventMu and   *)
(* Machine.stateMu: the calls made concurrently.                           *)
(***************************************************************************)
EXTENDS Naturals, Sequences, FiniteSets

VARIABLES
    current,      \* Machine.current
    transitions,  \* Machine.transitions : eKey -> destination state
    callbacks,    \* Machine.callbacks   : cKey -> the supplied callback (by its name)
    transition,   \* Machine.transition  : <<>> is nil, <<closure>> a pending closure
    supplied,     \* the names of the Callbacks map handed to NewMachine
    last,         \* the most recent call on the machine and what it returned
    eventMu,      \* Machine.eventMu : the goroutine that holds it, or Unlocked
    stateMu,      \* Machine.stateMu : the read locks held, the writer
    goroutines    \* the call each goroutine is in, and how far it has got

\* What the goroutines and the two mutexes add to the machine's fields.
lockVars == <<eventMu, stateMu, goroutines>>

vars == <<current, transitions, callbacks, transition, supplied, last, lockVars>>

----------------------------------------------------------------------------
(* Strings *)

empty == <<>>
idle == <<"i", "d", "l", "e">>
scan == <<"s", "c", "a", "n">>
bogus == <<"b", "o", "g", "u", "s">>
event == <<"e", "v", "e", "n", "t">>
state == <<"s", "t", "a", "t", "e">>

before_ == <<"b", "e", "f", "o", "r", "e", "_">>
leave_ == <<"l", "e", "a", "v", "e", "_">>
enter_ == <<"e", "n", "t", "e", "r", "_">>
after_ == <<"a", "f", "t", "e", "r", "_">>

\* strings.HasPrefix(s, prefix)
HasPrefix(s, prefix) ==
    /\ Len(s) >= Len(prefix)
    /\ SubSeq(s, 1, Len(prefix)) = prefix

Chars(s) == {s[i] : i \in 1..Len(s)}

RECURSIVE TrimLeft(_, _)
TrimLeft(s, cutset) ==
    IF s = <<>> \/ Head(s) \notin cutset THEN s ELSE TrimLeft(Tail(s), cutset)

RECURSIVE TrimRight(_, _)
TrimRight(s, cutset) ==
    IF s = <<>> \/ s[Len(s)] \notin cutset
    THEN s
    ELSE TrimRight(SubSeq(s, 1, Len(s) - 1), cutset)

\* strings.Trim(s, cutset): every leading and trailing character of s that
\* occurs in cutset is removed.
Trim(s, cutset) == TrimRight(TrimLeft(s, Chars(cutset)), Chars(cutset))

----------------------------------------------------------------------------
(* Constants of machine.go *)

callbackNone == 0
callbackBeforeEvent == 1
callbackLeaveState == 2
callbackEnterState == 3
callbackAfterEvent == 4

eKey(ev, src) == [event |-> ev, src |-> src]
cKey(target, callbackType) == [target |-> target, callbackType |-> callbackType]

NilErr == "nil"
CbErr == "callback error"

\* A Go map with key k set to v (m[k] = v).
MapPut(m, k, v) == [x \in (DOMAIN m) \cup {k} |-> IF x = k THEN v ELSE m[x]]

EmptyMap == [x \in {} |-> x]

Range(s) == {s[i] : i \in DOMAIN s}

----------------------------------------------------------------------------
(* Inputs: the arguments NewMachine and the operations are called with *)

\* Bound on the length of the event list handed to NewMachine.
MaxEvents == 2

\* State and event names.  scan names an event and a state; the empty
\* string is a legal event name.
States == {idle, scan}
EventNames == {empty, scan}
\* Names Event is called with: the event names and one no descriptor uses.
CallNames == EventNames \cup {bogus}

\* EventDesc values.
SrcLists == {<<idle>>, <<scan>>, <<idle, scan>>}
EventDescs ==
    {[Name |-> n, Src |-> s, Dst |-> d] : n \in EventNames, s \in SrcLists, d \in States}

RECURSIVE SeqsUpTo(_, _)
SeqsUpTo(S, n) ==
    IF n = 0
    THEN {<<>>}
    ELSE LET shorter == SeqsUpTo(S, n - 1)
         IN shorter \cup {Append(q, x) : q \in {r \in shorter : Len(r) = n - 1}, x \in S}

EventLists == SeqsUpTo(EventDescs, MaxEvents)

Prefixes == {before_, leave_, enter_, after_}
Targets == States \cup EventNames \cup {event, state}
PrefixedNames == {p \o t : p \in Prefixes, t \in Targets}
BareNames == Targets
\* The Callbacks maps NewMachine is given, by their key sets.
Supplies == {{}, PrefixedNames, BareNames, PrefixedNames \cup BareNames}

----------------------------------------------------------------------------
(* NewMachine *)

\* machine.go 39-46: the transition table; a later descriptor overwrites an
\* earlier one with the same (Name, src).
RECURSIVE AddSources(_, _, _, _)
AddSources(m, name, srcs, dst) ==
    IF srcs = <<>>
    THEN m
    ELSE AddSources(MapPut(m, eKey(name, Head(srcs)), dst), name, Tail(srcs), dst)

RECURSIVE BuildTransitions(_, _)
BuildTransitions(m, events) ==
    IF events = <<>>
    THEN m
    ELSE LET e == Head(events)
         IN BuildTransitions(AddSources(m, e.Name, e.Src, e.Dst), Tail(events))

\* machine.go 37, 45: allEvents
AllEvents(events) == {events[i].Name : i \in DOMAIN events}

\* machine.go 38, 42-43: allStatus; the destination is recorded inside the
\* loop over the sources.
AllStatus(events) ==
    UNION {Range(events[i].Src) \cup {events[i].Dst} :
             i \in {j \in DOMAIN events : events[j].Src # <<>>}}

\* machine.go 55-60 and the three cases after it: the target and type a
\* prefixed callback name resolves to.
ResolvePrefixed(name, prefix, wildcard, known, callbackType) ==
    LET target == Trim(name, prefix)
    IN  IF target = wildcard
        THEN cKey(target, callbackType)
        ELSE IF target \in known
             THEN cKey(target, callbackType)
             ELSE cKey(target, callbackNone)

\* machine.go 51-89: the switch over the callback's name.
Resolve(name, allEvents, allStatus) ==
    IF HasPrefix(name, before_)
    THEN ResolvePrefixed(name, before_, event, allEvents, callbackBeforeEvent)
    ELSE IF HasPrefix(name, leave_)
    THEN ResolvePrefixed(name, leave_, state, allStatus, callbackLeaveState)
    ELSE IF HasPrefix(name, enter_)
    THEN ResolvePrefixed(name, enter_, state, allStatus, callbackEnterState)
    ELSE IF HasPrefix(name, after_)
    THEN ResolvePrefixed(name, after_, event, allEvents, callbackAfterEvent)
    ELSE IF name \in allStatus
    THEN cKey(name, callbackEnterState)
    ELSE IF name \in allEvents
    THEN cKey(name, callbackAfterEvent)
    ELSE cKey(name, callbackNone)

\* machine.go 50, 90-92: the registries the loop over the Callbacks map can
\* build.  Two names that resolve to one key overwrite each other, and the
\* map's iteration order decides which is written last.
RECURSIVE Registries(_, _, _, _)
Registries(keys, names, allEvents, allStatus) ==
    IF keys = {}
    THEN {EmptyMap}
    ELSE LET k == CHOOSE x \in keys : TRUE
         IN {MapPut(m, k, n) :
               m \in Registries(keys \ {k}, names, allEvents, allStatus),
               n \in {x \in names : Resolve(x, allEvents, allStatus) = k}}

NewMachineCallbacks(names, events) ==
    LET allEvents == AllEvents(events)
        allStatus == AllStatus(events)
        keys == {k \in {Resolve(n, allEvents, allStatus) : n \in names} :
                   k.callbackType # callbackNone}
    IN Registries(keys, names, allEvents, allStatus)

----------------------------------------------------------------------------
(* Errors: the value a call returns.  kind "nil" is a nil error, kind      *)
(* "error" is the error value a callback stored in Event.Err, returned as  *)
(* it is; the other kinds are the package's error types, Err the error     *)
(* they wrap.                                                              *)

NoError == [kind |-> "nil", Err |-> NilErr]
ErrorOf(kind, err) == [kind |-> kind, Err |-> err]
\* machine.go 207: return e.Err
ContextError(err) == IF err = NilErr THEN NoError ELSE ErrorOf("error", err)

----------------------------------------------------------------------------
(* event.go: the Event context and what a callback can do to it *)

\* machine.go 170: &Event{m, event, m.current, dst, nil, args, false, false}
NewEvent(ev, src, dst) ==
    [Event |-> ev, Src |-> src, Dst |-> dst, Err |-> NilErr,
     canceled |-> FALSE, async |-> FALSE]

\* The context of a call that built none.
NoEvent == NewEvent(empty, empty, empty)

\* What a callback does with the context before the transition is committed.
Behaviours == {"none", "Cancel()", "Cancel(err)", "Async()", "Err=err"}
\* Once the state is written the flags are read no more: a callback's
\* Cancel(err) then only stores the error, Cancel() and Async() do nothing.
LateBehaviours == {"none", "Err=err"}

\* event.go 14-23: Cancel and Async; Err is an exported field.
Apply(e, did) ==
    IF did = "Cancel()" THEN [e EXCEPT !.canceled = TRUE]
    ELSE IF did = "Cancel(err)" THEN [e EXCEPT !.canceled = TRUE, !.Err = CbErr]
    ELSE IF did = "Async()" THEN [e EXCEPT !.async = TRUE]
    ELSE IF did = "Err=err" THEN [e EXCEPT !.Err = CbErr]
    ELSE e

----------------------------------------------------------------------------
(* A call in progress: r.cur and r.tr are Machine.current and              *)
(* Machine.transition as the call has left them so far, r.e the Event      *)
(* context, r.log the callbacks invoked so far, r.err the error the step   *)
(* just taken returned.                                                    *)

Running(cur, tr, e) == [cur |-> cur, tr |-> tr, e |-> e, log |-> <<>>, err |-> NoError]

\* machine.go 183-190: the closure stored in m.transition.  It captures dst
\* and the pointer e, so it sees the context as the callbacks leave it.
Closure(dst, e) == [dst |-> dst, e |-> e]

\* fn(e) for the callback registered under key: one outcome for each thing
\* the callback can do.  A pending closure shares the context.  The log
\* keeps what the callback would see if it asked the machine: Current() and
\* whether a transition is pending.
Call(r, key, slot, behaviours) ==
    {[r EXCEPT !.e = Apply(r.e, did),
               !.tr = IF r.tr = <<>> THEN <<>> ELSE <<Closure(r.tr[1].dst, Apply(r.e, did))>>,
               !.log = Append(r.log, [fn |-> callbacks[key],
                                      callbackType |-> key.callbackType,
                                      slot |-> slot,
                                      did |-> did,
                                      Current |-> r.cur,
                                      pending |-> r.tr # <<>>])] :
       did \in behaviours}

\* `if fn, ok := m.callbacks[key]; ok { fn(e); <check> }`
CanceledCheck(r) ==
    IF r.e.canceled THEN [r EXCEPT !.err = ErrorOf("CanceledError", r.e.Err)] ELSE r

LeaveCheck(r) ==
    IF r.e.canceled THEN [r EXCEPT !.err = ErrorOf("CanceledError", r.e.Err)]
    ELSE IF r.e.async THEN [r EXCEPT !.err = ErrorOf("AsyncError", r.e.Err)]
    ELSE r

\* machine.go 210-230
beforeEventCallbacks(r) ==
    LET k1 == cKey(r.cur, callbackBeforeEvent)
        k2 == cKey(empty, callbackBeforeEvent)
        first == IF k1 \in DOMAIN callbacks
                 THEN {CanceledCheck(x) : x \in Call(r, k1, "specific", Behaviours)}
                 ELSE {r}
        second(x) == IF x.err # NoError
                     THEN {x}
                     ELSE IF k2 \in DOMAIN callbacks
                          THEN {CanceledCheck(y) : y \in Call(x, k2, "wildcard", Behaviours)}
                          ELSE {x}
    IN UNION {second(x) : x \in first}

\* Fault: the leave-state phase never looks at the async flag.
LeaveCheckNoAsync(r) == CanceledCheck(r)

\* Fault: the leave-state phase reads the flags with the before-event check.
leaveStateCallbacksNoAsync(r) ==
    LET k1 == cKey(r.cur, callbackLeaveState)
        k2 == cKey(empty, callbackLeaveState)
        first == IF k1 \in DOMAIN callbacks
                 THEN {LeaveCheckNoAsync(x) : x \in Call(r, k1, "specific", Behaviours)}
                 ELSE {r}
        second(x) == IF x.err # NoError
                     THEN {x}
                     ELSE IF k2 \in DOMAIN callbacks
                          THEN {LeaveCheckNoAsync(y) : y \in Call(x, k2, "wildcard", Behaviours)}
                          ELSE {x}
    IN UNION {second(x) : x \in first}

\* machine.go 232-250
leaveStateCallbacks(r) ==
    LET k1 == cKey(r.cur, callbackLeaveState)
        k2 == cKey(empty, callbackLeaveState)
        first == IF k1 \in DOMAIN callbacks
                 THEN {LeaveCheck(x) : x \in Call(r, k1, "specific", Behaviours)}
                 ELSE {r}
        second(x) == IF x.err # NoError
                     THEN {x}
                     ELSE IF k2 \in DOMAIN callbacks
                          THEN {LeaveCheck(y) : y \in Call(x, k2, "wildcard", Behaviours)}
                          ELSE {x}
    IN UNION {second(x) : x \in first}

\* machine.go 252-259
enterStateCallbacks(r) ==
    LET k1 == cKey(r.cur, callbackEnterState)
        k2 == cKey(empty, callbackEnterState)
        first == IF k1 \in DOMAIN callbacks
                 THEN Call(r, k1, "specific", LateBehaviours)
                 ELSE {r}
        second(x) == IF k2 \in DOMAIN callbacks
                     THEN Call(x, k2, "wildcard", LateBehaviours)
                     ELSE {x}
    IN UNION {second(x) : x \in first}

\* machine.go 261-268
afterEventCallbacks(r) ==
    LET k1 == cKey(r.e.Event, callbackAfterEvent)
        k2 == cKey(empty, callbackAfterEvent)
        first == IF k1 \in DOMAIN callbacks
                 THEN Call(r, k1, "specific", LateBehaviours)
                 ELSE {r}
        second(x) == IF k2 \in DOMAIN callbacks
                     THEN Call(x, k2, "wildcard", LateBehaviours)
                     ELSE {x}
    IN UNION {second(x) : x \in first}

\* Fault: the closure runs the callbacks and never writes the state.
RunClosureNoWrite(r) ==
    UNION {afterEventCallbacks(x) : x \in enterStateCallbacks(r)}

\* Fault: the closure writes the state after the enter-state callbacks.
RunClosureWritesLate(r) ==
    UNION {afterEventCallbacks([x EXCEPT !.cur = r.tr[1].dst]) :
             x \in enterStateCallbacks(r)}

\* The closure's body: write the state, then the enter-state and the
\* after-event callbacks.
RunClosure(r) ==
    LET written == [r EXCEPT !.cur = r.tr[1].dst]
    IN UNION {afterEventCallbacks(x) : x \in enterStateCallbacks(written)}

\* Fault: the commit runs the closure and leaves it in m.transition.
transitionerTransitionKeepsClosure(r) ==
    IF r.tr = <<>>
    THEN {[r EXCEPT !.err = ErrorOf("NotInTransitionError", NilErr)]}
    ELSE {[x EXCEPT !.err = NoError] : x \in RunClosure(r)}

\* transition.go 9-16: transitionerStruct.transition
transitionerTransition(r) ==
    IF r.tr = <<>>
    THEN {[r EXCEPT !.err = ErrorOf("NotInTransitionError", NilErr)]}
    ELSE {[x EXCEPT !.tr = <<>>, !.err = NoError] : x \in RunClosure(r)}

\* machine.go 270-272
doTransition(r) == transitionerTransition(r)

----------------------------------------------------------------------------
(* Machine.Event *)

\* machine.go 159-167: the loop returns while it visits its first key, and
\* which key a range over a map visits first is the runtime's choice.
RejectedEvent(r, ev) ==
    {IF first.event = ev
     THEN [r EXCEPT !.err = ErrorOf("InvalidEventError", NilErr)]
     ELSE [r EXCEPT !.err = ErrorOf("UnknownEventError", NilErr)] :
       first \in DOMAIN transitions}

\* Fault: a cancelled leave-state phase leaves the closure in m.transition.
ChangeStateKeepsPending(r, dst) ==
    LET left == leaveStateCallbacks([r EXCEPT !.tr = <<Closure(dst, r.e)>>])
        after(x) ==
            IF x.err # NoError
            THEN {x}
            ELSE {IF y.err # NoError
                  THEN [y EXCEPT !.err = ErrorOf("InternalError", NilErr)]
                  ELSE [y EXCEPT !.err = ContextError(y.e.Err)] :
                    y \in doTransition(x)}
    IN UNION {after(x) : x \in left}

\* machine.go 182-207: the state changes.
ChangeState(r, dst) ==
    LET left == leaveStateCallbacks([r EXCEPT !.tr = <<Closure(dst, r.e)>>])
        after(x) ==
            IF x.err # NoError
            THEN {IF x.err.kind = "CanceledError" THEN [x EXCEPT !.tr = <<>>] ELSE x}
            ELSE {IF y.err # NoError
                  THEN [y EXCEPT !.err = ErrorOf("InternalError", NilErr)]
                  ELSE [y EXCEPT !.err = ContextError(y.e.Err)] :
                    y \in doTransition(x)}
    IN UNION {after(x) : x \in left}

\* Fault: a self-transition is set up and committed like any other.
AcceptedEventNoGuard(r, dst) ==
    LET after(x) == IF x.err # NoError THEN {x} ELSE ChangeState(x, dst)
    IN UNION {after(x) : x \in beforeEventCallbacks(r)}

\* machine.go 170-207: the call once the event is accepted.
AcceptedEvent(r, dst) ==
    LET after(x) ==
            IF x.err # NoError
            THEN {x}
            ELSE IF x.cur = dst
                 THEN {[y EXCEPT !.err = ErrorOf("NoTransitionError", y.e.Err)] :
                         y \in afterEventCallbacks(x)}
                 ELSE ChangeState(x, dst)
    IN UNION {after(x) : x \in beforeEventCallbacks(r)}

\* machine.go 146-208: every way the call Event(ev) can end when it finds
\* the machine with m.current = cur and m.transition = tr.  A key the map
\* does not hold reads as the zero value "", and an empty map's range has no
\* iteration, so the call goes on with dst = "".
EventResultsFrom(cur, tr, ev) ==
    LET key == eKey(ev, cur)
        ok == key \in DOMAIN transitions
        dst == IF ok THEN transitions[key] ELSE empty
        r == Running(cur, tr, NoEvent)
    IN  IF tr # <<>>
        THEN {[r EXCEPT !.err = ErrorOf("InTransitionError", NilErr)]}
        ELSE IF ~ok /\ DOMAIN transitions # {}
             THEN RejectedEvent(r, ev)
             ELSE AcceptedEvent([r EXCEPT !.e = NewEvent(ev, cur, dst)], dst)

\* The call made on the machine as it is now.
EventResults(ev) == EventResultsFrom(current, transition, ev)

Called(op, arg, r) ==
    [op |-> op, arg |-> arg, cur0 |-> current, tr0 |-> transition,
     ret |-> r.err, log |-> r.log, e |-> r.e]

Event(ev) ==
    \E r \in EventResults(ev) :
        /\ current' = r.cur
        /\ transition' = r.tr
        /\ last' = Called("Event", ev, r)
        /\ UNCHANGED <<transitions, callbacks, supplied, lockVars>>

----------------------------------------------------------------------------
(* The other operations *)

\* machine.go 107-112
SetState(s) ==
    /\ current' = s
    /\ last' = Called("SetState", s, Running(current, transition, NoEvent))
    /\ UNCHANGED <<transitions, callbacks, transition, supplied, lockVars>>

\* The resume of a deferred transition: the commit of transition.go, called
\* again from outside Event.
ResumeTransition ==
    \E r \in doTransition(Running(current, transition,
                                  IF transition = <<>> THEN NoEvent ELSE transition[1].e)) :
        /\ current' = r.cur
        /\ transition' = r.tr
        /\ last' = Called("ResumeTransition", empty, r)
        /\ UNCHANGED <<transitions, callbacks, supplied, lockVars>>

\* machine.go 97-101
Current == current

\* machine.go 103-105
Is(s) == s = Current

\* Fault: Can looks at the table only and forgets the pending transition.
CanIgnoresPending(ev) == eKey(ev, current) \in DOMAIN transitions

\* machine.go 117-122
Can(ev) == eKey(ev, current) \in DOMAIN transitions /\ transition = <<>>

\* machine.go 142-144
Cannot(ev) == ~Can(ev)

\* The orders in which a range over a map with these keys can visit them.
RECURSIVE Orders(_)
Orders(keys) ==
    IF keys = {}
    THEN {<<>>}
    ELSE UNION {{<<k>> \o rest : rest \in Orders(keys \ {k})} : k \in keys}

\* Fault: the loop compares the key's event, not its source, with the state.
RECURSIVE CollectByEvent(_, _)
CollectByEvent(order, result) ==
    IF order = <<>>
    THEN result
    ELSE CollectByEvent(Tail(order),
                        IF Head(order).event = current
                        THEN Append(result, Head(order).event)
                        ELSE result)

\* machine.go 130-136: the loop body, over the keys in the order visited.
RECURSIVE Collect(_, _)
Collect(order, result) ==
    IF order = <<>>
    THEN result
    ELSE Collect(Tail(order),
                 IF Head(order).src = current
                 THEN Append(result, Head(order).event)
                 ELSE result)

\* machine.go 127-137: every slice the call can return.
AvailableTransitions == {Collect(order, <<>>) : order \in Orders(DOMAIN transitions)}

----------------------------------------------------------------------------
(* Goroutines and the two mutexes.  A sync.Mutex is the goroutine that     *)
(* holds it.  A sync.RWMutex is the number of read locks each goroutine    *)
(* holds, the goroutine that is in Lock (w: it has announced itself, and   *)
(* from then on RLock blocks), and whether that goroutine has the lock     *)
(* (writing: the readers that were in have all left).                      *)

\* Two goroutines that trigger events, and one that calls the other
\* operations: SetState and the queries.
Triggers == {"t1", "t2"}
Others == {"o"}
Goroutines == Triggers \cup Others

Unlocked == "unlocked"

NewRWMutex == [readers |-> [g \in Goroutines |-> 0], w |-> Unlocked, writing |-> FALSE]

\* A goroutine that is in no call of the machine.
Idle ==
    [pc |-> "idle", op |-> "", arg |-> empty, cur0 |-> empty, tr0 |-> <<>>,
     dst |-> empty, e |-> NoEvent, err |-> NoError,
     at |-> "", key |-> cKey(empty, callbackNone), path |-> "",
     disturbed |-> FALSE]

----------------------------------------------------------------------------
(* The specification *)

\* machine.go 28-95: the machine NewMachine returns.
NewMachine(initialState, events, names) ==
    /\ current = initialState
    /\ transitions = BuildTransitions(EmptyMap, events)
    /\ callbacks \in NewMachineCallbacks(names, events)
    /\ transition = <<>>
    /\ supplied = names
    /\ last = [op |-> "NewMachine", arg |-> initialState, cur0 |-> initialState,
               tr0 |-> <<>>, ret |-> NoError, log |-> <<>>, e |-> NoEvent]
    /\ eventMu = Unlocked
    /\ stateMu = NewRWMutex
    /\ goroutines = [g \in Goroutines |-> Idle]

Init ==
    \E initialState \in States, events \in EventLists, names \in Supplies :
        NewMachine(initialState, events, names)

Next ==
    \/ \E ev \in CallNames : Event(ev)
    \/ \E s \in States : SetState(s)
    \/ ResumeTransition

Spec == Init /\ [][Next]_vars

----------------------------------------------------------------------------
(* The calls step by step.  A goroutine's pc is the line of machine.go it  *)
(* is about to execute (Tnn: line nn of transition.go); a step is one lock *)
(* operation, one access to m.current or m.transition, or one callback.    *)

Goto(g, f) == goroutines' = [goroutines EXCEPT ![g] = f]

At(g, pc) == goroutines[g].pc = pc

\* sync.RWMutex.  RLock blocks from the moment a writer is in Lock.
RLock(g) ==
    /\ stateMu.w = Unlocked
    /\ stateMu' = [stateMu EXCEPT !.readers[g] = @ + 1]

RUnlock(g) ==
    stateMu' = [stateMu EXCEPT !.readers[g] = IF @ > 0 THEN @ - 1 ELSE 0]

\* Lock: the writer announces itself, then waits for the readers to leave.
LockAnnounce(g) ==
    /\ stateMu.w = Unlocked
    /\ stateMu' = [stateMu EXCEPT !.w = g]

LockAcquire(g) ==
    /\ stateMu.w = g
    /\ \A h \in Goroutines : stateMu.readers[h] = 0
    /\ stateMu' = [stateMu EXCEPT !.writing = TRUE]

Unlock(g) ==
    stateMu' = [stateMu EXCEPT !.w = Unlocked, !.writing = FALSE]

HoldsRead(g) == stateMu.readers[g] > 0
HoldsWrite(g) == stateMu.w = g /\ stateMu.writing

\* The accesses to the two mutable fields, by the line that makes them.
WritesCurrent == {"L185", "L110"}
WritesTransition == {"L183", "L194", "T14"}
ReadsCurrent == {"L153", "L211", "L177", "L233", "L253", "fn.L100"}
ReadsTransition == {"L153", "T10"}

Writes(g, field) ==
    goroutines[g].pc \in (IF field = "current" THEN WritesCurrent ELSE WritesTransition)

Reads(g, field) ==
    \/ goroutines[g].pc \in (IF field = "current" THEN ReadsCurrent ELSE ReadsTransition)
    \/ goroutines[g].pc = "q.read" /\ (field = "current" \/ goroutines[g].op = "Can")

\* What a read of m.current made without the lock can give: the value, or,
\* while another goroutine is storing a string there, neither string.
torn == <<"?">>
ReadCurrentUnlocked(g) ==
    {current} \cup {torn : h \in {x \in Goroutines \ {g} : Writes(x, "current")}}

\* The eight `if fn, ok := m.callbacks[cKey{...}]; ok { fn(e) ... }`.
BeforeSlots == {"L211", "L220"}
LeaveSlots == {"L233", "L241"}
EnterSlots == {"L253", "L256"}
AfterSlots == {"L262", "L265"}
Slots == BeforeSlots \cup LeaveSlots \cup EnterSlots \cup AfterSlots

SlotType(pc) ==
    IF pc \in BeforeSlots THEN callbackBeforeEvent
    ELSE IF pc \in LeaveSlots THEN callbackLeaveState
    ELSE IF pc \in EnterSlots THEN callbackEnterState
    ELSE callbackAfterEvent

SlotName(pc) == IF pc \in {"L211", "L233", "L253", "L262"} THEN "specific" ELSE "wildcard"

SlotBehaviours(pc) == IF pc \in BeforeSlots \cup LeaveSlots THEN Behaviours ELSE LateBehaviours

\* The targets the lookup at pc can be made with.
SlotTargets(g, pc) ==
    IF pc \in {"L211", "L233"} THEN {current}
    ELSE IF pc = "L253" THEN ReadCurrentUnlocked(g)
    ELSE IF pc = "L262" THEN {goroutines[g].e.Event}
    ELSE {empty}

\* Where the call goes on when the `if` at pc is done and nothing returned.
After(f, pc) ==
    IF pc = "L211" THEN [f EXCEPT !.pc = "L220"]
    ELSE IF pc = "L220" THEN [f EXCEPT !.pc = "L177"]
    ELSE IF pc = "L233" THEN [f EXCEPT !.pc = "L241"]
    ELSE IF pc = "L241" THEN [f EXCEPT !.pc = "L200"]
    ELSE IF pc = "L253" THEN [f EXCEPT !.pc = "L256"]
    ELSE IF pc = "L256" THEN [f EXCEPT !.pc = "L262"]
    ELSE IF pc = "L262" THEN [f EXCEPT !.pc = "L265"]
    ELSE IF f.path = "self"
         THEN [f EXCEPT !.pc = "L151", !.err = ErrorOf("NoTransitionError", f.e.Err)]
         ELSE [f EXCEPT !.pc = "T14"]

----------------------------------------------------------------------------
(* Machine.Event, step by step *)

UnchangedMachine == UNCHANGED <<current, transitions, callbacks, transition, supplied, last>>

\* A goroutine calls m.Event(ev).
CallEvent(g, ev) ==
    /\ g \in Triggers
    /\ At(g, "idle")
    /\ Goto(g, [Idle EXCEPT !.pc = "L147", !.op = "Event", !.arg = ev])
    /\ UNCHANGED <<eventMu, stateMu>>
    /\ UnchangedMachine

\* Fault: Event goes on without waiting for the event lock.
EventLockNoWait(g) ==
    /\ At(g, "L147")
    /\ eventMu' = g
    /\ Goto(g, [goroutines[g] EXCEPT !.pc = "L150"])
    /\ UNCHANGED stateMu
    /\ UnchangedMachine

\* machine.go 147
EventLock(g) ==
    /\ At(g, "L147")
    /\ eventMu = Unlocked
    /\ eventMu' = g
    /\ Goto(g, [goroutines[g] EXCEPT !.pc = "L150"])
    /\ UNCHANGED stateMu
    /\ UnchangedMachine

\* machine.go 150
EventRLock(g) ==
    /\ At(g, "L150")
    /\ RLock(g)
    /\ Goto(g, [goroutines[g] EXCEPT !.pc = "L153"])
    /\ UNCHANGED eventMu
    /\ UnchangedMachine

\* machine.go 153-170: the pending check, the lookup, the context.
EventCheck(g) ==
    LET f == [goroutines[g] EXCEPT !.cur0 = current, !.tr0 = transition]
        key == eKey(f.arg, current)
        ok == key \in DOMAIN transitions
        dst == IF ok THEN transitions[key] ELSE empty
    IN  /\ At(g, "L153")
        /\ IF transition # <<>>
           THEN Goto(g, [f EXCEPT !.pc = "L151",
                                  !.err = ErrorOf("InTransitionError", NilErr)])
           ELSE IF ~ok /\ DOMAIN transitions # {}
                THEN \E x \in RejectedEvent(Running(current, transition, NoEvent), f.arg) :
                         Goto(g, [f EXCEPT !.pc = "L151", !.err = x.err])
                ELSE Goto(g, [f EXCEPT !.pc = "L211", !.dst = dst,
                                       !.e = NewEvent(f.arg, current, dst)])
        /\ UNCHANGED <<eventMu, stateMu>>
        /\ UnchangedMachine

\* The map lookup of one of the eight `if`s: the `if` is skipped, or the
\* callback is entered.  The callback is one that only works on the
\* context (fn), or one that first calls e.Machine.Current() (fn.L98).
Lookup(g) ==
    LET f == goroutines[g]
    IN  /\ f.pc \in Slots
        /\ \E target \in SlotTargets(g, f.pc) :
             LET key == cKey(target, SlotType(f.pc))
             IN IF key \in DOMAIN callbacks
                THEN \E entry \in {"fn", "fn.L98"} :
                         Goto(g, [f EXCEPT !.pc = entry, !.at = f.pc, !.key = key])
                ELSE Goto(g, After(f, f.pc))
        /\ UNCHANGED <<eventMu, stateMu>>
        /\ UnchangedMachine

\* machine.go 98, called by the callback
FnRLock(g) ==
    /\ At(g, "fn.L98")
    /\ RLock(g)
    /\ Goto(g, [goroutines[g] EXCEPT !.pc = "fn.L100"])
    /\ UNCHANGED eventMu
    /\ UnchangedMachine

\* machine.go 100, 99: the read and the deferred RUnlock.
FnRUnlock(g) ==
    /\ At(g, "fn.L100")
    /\ RUnlock(g)
    /\ Goto(g, [goroutines[g] EXCEPT !.pc = "fn"])
    /\ UNCHANGED eventMu
    /\ UnchangedMachine

\* fn(e) returns, having done to the context what it does, and the flags
\* are tested (before-event: canceled; leave-state: canceled, then async).
FnReturn(g) ==
    LET f == goroutines[g]
        r == Running(current, transition, f.e)
        check(x) == IF f.at \in BeforeSlots THEN CanceledCheck(x)
                    ELSE IF f.at \in LeaveSlots THEN LeaveCheck(x)
                    ELSE x
    IN  /\ f.pc = "fn"
        /\ \E x \in Call(r, f.key, SlotName(f.at), SlotBehaviours(f.at)) :
             LET y == check(x)
                 h == [f EXCEPT !.e = y.e, !.err = y.err]
             IN /\ transition' = y.tr
                /\ Goto(g, IF y.err = NoError THEN After(h, f.at)
                           ELSE IF y.err.kind = "CanceledError" /\ f.at \in LeaveSlots
                                THEN [h EXCEPT !.pc = "L194"]
                                ELSE [h EXCEPT !.pc = "L151"])
        /\ UNCHANGED <<eventMu, stateMu>>
        /\ UNCHANGED <<current, transitions, callbacks, supplied, last>>

\* machine.go 177
SelfTransitionTest(g) ==
    LET f == goroutines[g]
    IN  /\ At(g, "L177")
        /\ Goto(g, IF current = f.dst
                   THEN [f EXCEPT !.pc = "L262", !.path = "self"]
                   ELSE [f EXCEPT !.pc = "L183", !.path = "commit"])
        /\ UNCHANGED <<eventMu, stateMu>>
        /\ UnchangedMachine

\* Fault: Event goes on to the leave-state phase without storing the
\* closure.
SetPendingSkipped(g) ==
    /\ At(g, "L183")
    /\ Goto(g, [goroutines[g] EXCEPT !.pc = "L233"])
    /\ UNCHANGED <<eventMu, stateMu>>
    /\ UnchangedMachine

\* machine.go 183: m.transition = func() {...}
SetPending(g) ==
    /\ At(g, "L183")
    /\ transition' = <<Closure(goroutines[g].dst, goroutines[g].e)>>
    /\ Goto(g, [goroutines[g] EXCEPT !.pc = "L233"])
    /\ UNCHANGED <<eventMu, stateMu>>
    /\ UNCHANGED <<current, transitions, callbacks, supplied, last>>

\* machine.go 194: m.transition = nil
ClearPending(g) ==
    /\ At(g, "L194")
    /\ transition' = <<>>
    /\ Goto(g, [goroutines[g] EXCEPT !.pc = "L151"])
    /\ UNCHANGED <<eventMu, stateMu>>
    /\ UNCHANGED <<current, transitions, callbacks, supplied, last>>

\* machine.go 200
EventRUnlock(g) ==
    /\ At(g, "L200")
    /\ RUnlock(g)
    /\ Goto(g, [goroutines[g] EXCEPT !.pc = "T10"])
    /\ UNCHANGED eventMu
    /\ UnchangedMachine

\* transition.go 10-12, machine.go 203-204
TransitionCheck(g) ==
    /\ At(g, "T10")
    /\ Goto(g, IF transition = <<>>
               THEN [goroutines[g] EXCEPT !.pc = "L201",
                                          !.err = ErrorOf("InternalError", NilErr)]
               ELSE [goroutines[g] EXCEPT !.pc = "L184"])
    /\ UNCHANGED <<eventMu, stateMu>>
    /\ UnchangedMachine

\* machine.go 184, in two steps
ClosureLock(g) ==
    /\ At(g, "L184")
    /\ LockAnnounce(g)
    /\ Goto(g, [goroutines[g] EXCEPT !.pc = "L184.wait"])
    /\ UNCHANGED eventMu
    /\ UnchangedMachine

ClosureLocked(g) ==
    /\ At(g, "L184.wait")
    /\ LockAcquire(g)
    /\ Goto(g, [goroutines[g] EXCEPT !.pc = "L185"])
    /\ UNCHANGED eventMu
    /\ UnchangedMachine

\* machine.go 185: m.current = dst
ClosureWrite(g) ==
    /\ At(g, "L185")
    /\ current' = transition[1].dst
    /\ Goto(g, [goroutines[g] EXCEPT !.pc = "L186"])
    /\ UNCHANGED <<eventMu, stateMu>>
    /\ UNCHANGED <<transitions, callbacks, transition, supplied, last>>

\* Fault: the closure goes on to the callbacks with the write lock held.
ClosureKeepsLock(g) ==
    /\ At(g, "L186")
    /\ Goto(g, [goroutines[g] EXCEPT !.pc = "L253"])
    /\ UNCHANGED <<eventMu, stateMu>>
    /\ UnchangedMachine

\* machine.go 186
ClosureUnlock(g) ==
    /\ At(g, "L186")
    /\ Unlock(g)
    /\ Goto(g, [goroutines[g] EXCEPT !.pc = "L253"])
    /\ UNCHANGED eventMu
    /\ UnchangedMachine

\* transition.go 14: m.transition = nil; machine.go 207: return e.Err
TransitionClear(g) ==
    /\ At(g, "T14")
    /\ transition' = <<>>
    /\ Goto(g, [goroutines[g] EXCEPT !.pc = "L201",
                                     !.err = ContextError(goroutines[g].e.Err)])
    /\ UNCHANGED <<eventMu, stateMu>>
    /\ UNCHANGED <<current, transitions, callbacks, supplied, last>>

\* Fault: the read lock released at line 200 is not taken again.
DeferredRLockSkipped(g) ==
    /\ At(g, "L201")
    /\ Goto(g, [goroutines[g] EXCEPT !.pc = "L151"])
    /\ UNCHANGED <<eventMu, stateMu>>
    /\ UnchangedMachine

\* The deferred calls, last registered first: machine.go 201, 151, 148.
DeferredRLock(g) ==
    /\ At(g, "L201")
    /\ RLock(g)
    /\ Goto(g, [goroutines[g] EXCEPT !.pc = "L151"])
    /\ UNCHANGED eventMu
    /\ UnchangedMachine

DeferredRUnlock(g) ==
    /\ At(g, "L151")
    /\ RUnlock(g)
    /\ Goto(g, [goroutines[g] EXCEPT !.pc = "L148"])
    /\ UNCHANGED eventMu
    /\ UnchangedMachine

\* machine.go 148, and the call has returned.
DeferredUnlock(g) ==
    /\ At(g, "L148")
    /\ eventMu' = IF eventMu = g THEN Unlocked ELSE eventMu
    /\ Goto(g, Idle)
    /\ UNCHANGED stateMu
    /\ UnchangedMachine

----------------------------------------------------------------------------
(* SetState and the queries, step by step *)

\* A goroutine calls m.SetState(s).
CallSetState(g, s) ==
    /\ g \in Others
    /\ At(g, "idle")
    /\ Goto(g, [Idle EXCEPT !.pc = "L108", !.op = "SetState", !.arg = s])
    /\ UNCHANGED <<eventMu, stateMu>>
    /\ UnchangedMachine

\* machine.go 108, in two steps
SetStateLock(g) ==
    /\ At(g, "L108")
    /\ LockAnnounce(g)
    /\ Goto(g, [goroutines[g] EXCEPT !.pc = "L108.wait"])
    /\ UNCHANGED eventMu
    /\ UnchangedMachine

SetStateLocked(g) ==
    /\ At(g, "L108.wait")
    /\ LockAcquire(g)
    /\ Goto(g, [goroutines[g] EXCEPT !.pc = "L110"])
    /\ UNCHANGED eventMu
    /\ UnchangedMachine

\* An Event call that has made its lookup and has not returned.
Underway(f) == f.op = "Event" /\ f.pc \notin {"L147", "L150", "L153"}

\* machine.go 110: m.current = state.  A call of Event that is under way
\* has had the state changed under it.
SetStateWrite(g) ==
    /\ At(g, "L110")
    /\ current' = goroutines[g].arg
    /\ goroutines' = [h \in Goroutines |->
                        IF h = g THEN [goroutines[g] EXCEPT !.pc = "L109"]
                        ELSE IF Underway(goroutines[h])
                             THEN [goroutines[h] EXCEPT !.disturbed = TRUE]
                             ELSE goroutines[h]]
    /\ UNCHANGED <<eventMu, stateMu>>
    /\ UNCHANGED <<transitions, callbacks, transition, supplied, last>>

\* machine.go 109, and the call has returned.
SetStateUnlock(g) ==
    /\ At(g, "L109")
    /\ Unlock(g)
    /\ Goto(g, Idle)
    /\ UNCHANGED eventMu
    /\ UnchangedMachine

\* A goroutine calls Current, Can or AvailableTransitions.
Queries == {"Current", "Can", "AvailableTransitions"}

CallQuery(g, op) ==
    /\ g \in Others
    /\ At(g, "idle")
    /\ Goto(g, [Idle EXCEPT !.pc = "q.RLock", !.op = op])
    /\ UNCHANGED <<eventMu, stateMu>>
    /\ UnchangedMachine

\* machine.go 98, 118, 128
QueryRLock(g) ==
    /\ At(g, "q.RLock")
    /\ RLock(g)
    /\ Goto(g, [goroutines[g] EXCEPT !.pc = "q.read"])
    /\ UNCHANGED eventMu
    /\ UnchangedMachine

\* machine.go 100, 120-121, 130-135: the reads of m.current, m.transition;
\* then 99, 119, 129, and the call has returned.
QueryRUnlock(g) ==
    /\ At(g, "q.read")
    /\ RUnlock(g)
    /\ Goto(g, Idle)
    /\ UNCHANGED eventMu
    /\ UnchangedMachine

----------------------------------------------------------------------------
(* The specification of the goroutines *)

\* A machine with a state-changing entry from each state, a self-transition
\* and callbacks of every phase.
LockEvents ==
    <<[Name |-> empty, Src |-> <<scan>>, Dst |-> idle],
      [Name |-> scan, Src |-> <<idle, scan>>, Dst |-> scan]>>

LockInit ==
    \E initialState \in States :
        NewMachine(initialState, LockEvents, PrefixedNames \cup BareNames)

LockNext ==
    \E g \in Goroutines :
        \/ \E ev \in CallNames : CallEvent(g, ev)
        \/ EventLock(g)
        \/ EventRLock(g)
        \/ EventCheck(g)
        \/ Lookup(g)
        \/ FnRLock(g)
        \/ FnRUnlock(g)
        \/ FnReturn(g)
        \/ SelfTransitionTest(g)
        \/ SetPending(g)
        \/ ClearPending(g)
        \/ EventRUnlock(g)
        \/ TransitionCheck(g)
        \/ ClosureLock(g)
        \/ ClosureLocked(g)
        \/ ClosureWrite(g)
        \/ ClosureUnlock(g)
        \/ TransitionClear(g)
        \/ DeferredRLock(g)
        \/ DeferredRUnlock(g)
        \/ DeferredUnlock(g)
        \/ \E st \in States : CallSetState(g, st)
        \/ SetStateLock(g)
        \/ SetStateLocked(g)
        \/ SetStateWrite(g)
        \/ SetStateUnlock(g)
        \/ \E op \in Queries : CallQuery(g, op)
        \/ QueryRLock(g)
        \/ QueryRUnlock(g)

LockSpec == LockInit /\ [][LockNext]_vars

----------------------------------------------------------------------------
(* Vocabulary of the properties *)

Cancels == {"Cancel()", "Cancel(err)"}

\* The last call was Event on a machine with no transition pending.
EventCalled == last.op = "Event" /\ last.tr0 = <<>>

\* The table entry the last call looked up.
LookedUp == eKey(last.arg, last.cur0)

\* The callbacks of the given types the last call invoked, in order.
Invoked(types) == SelectSeq(last.log, LAMBDA c : c.callbackType \in types)

NoCancelNoAsync == \A i \in DOMAIN last.log : last.log[i].did \notin Cancels \cup {"Async()"}

\* No Event call made now would be rejected with InTransitionError.
NotInTransition ==
    \A ev \in CallNames : \A r \in EventResults(ev) : r.err.kind # "InTransitionError"

----------------------------------------------------------------------------
(* C1: Event(event) called with no transition pending, a table entry       *)
(* (event, Current()) -> dst with dst # Current(), and no callback that    *)
(* cancels or requests async, returns the context's error (nil when no     *)
(* callback stored one) and leaves Current() = dst.                        *)
C1_Case ==
    /\ EventCalled
    /\ LookedUp \in DOMAIN transitions
    /\ transitions[LookedUp] # last.cur0
    /\ NoCancelNoAsync

C1_EventReachesDestination ==
    C1_Case =>
        /\ current = transitions[LookedUp]
        /\ last.ret.kind \in {"nil", "error"}
        /\ last.ret.kind = "nil" <=> \A i \in DOMAIN last.log : last.log[i].did # "Err=err"
        /\ last.ret.Err = last.e.Err

\* A state-changing Event that ran callbacks and returned nil.
C1_Witness ==
    /\ C1_Case
    /\ last.log # <<>>
    /\ last.ret = NoError
    /\ current = transitions[LookedUp]

(* C2: Event(event) called with no transition pending and no table entry   *)
(* (event, Current()) never succeeds: it returns UnknownEventError or      *)
(* InvalidEventError and leaves Current() unchanged; this for every        *)
(* machine, one built from an empty event list included.                   *)
C2_NoEntryNeverSucceeds ==
    (EventCalled /\ LookedUp \notin DOMAIN transitions) =>
        /\ last.ret.kind \in {"UnknownEventError", "InvalidEventError"}
        /\ current = last.cur0

(* C3: when Event(event) is rejected for want of a table entry, the error  *)
(* is InvalidEventError iff some table entry has that event name, and      *)
(* UnknownEventError iff none has, whatever order the table is visited in. *)
C3_ErrorKindByTable ==
    (/\ EventCalled
     /\ LookedUp \notin DOMAIN transitions
     /\ last.ret.kind \in {"UnknownEventError", "InvalidEventError"}) =>
        (last.ret.kind = "InvalidEventError"
            <=> \E k \in DOMAIN transitions : k.event = last.arg)

(* C4: a valid state-changing event on a machine given all eight callbacks *)
(* (before_<event>, before_event, leave_<src>, leave_state, enter_<dst>,   *)
(* enter_state, after_<event>, after_event) invokes each exactly once, in  *)
(* that order.  Stated for the named events, none of the callbacks         *)
(* cancelling or deferring.                                                *)
C4_AllEightInOrder ==
    (/\ EventCalled
     /\ last.arg # empty
     /\ LookedUp \in DOMAIN transitions
     /\ transitions[LookedUp] # last.cur0
     /\ supplied = PrefixedNames
     /\ NoCancelNoAsync) =>
        [i \in DOMAIN last.log |-> last.log[i].fn]
            = << before_ \o last.arg, before_ \o event,
                 leave_ \o last.cur0, leave_ \o state,
                 enter_ \o transitions[LookedUp], enter_ \o state,
                 after_ \o last.arg, after_ \o event >>

(* C5: NewMachine registers before_E and after_E under (E, phase) for a    *)
(* known event E, leave_S and enter_S under (S, phase) for a known state   *)
(* S, the literal names before_event, leave_state, enter_state and         *)
(* after_event under the wildcard target of their phase, and a bare name   *)
(* as enter-state if it is a known state, else as after-event if it is a   *)
(* known event.  Stated for the non-empty names the table knows, where no  *)
(* two of the supplied names claim one key.                                *)
KnownEvents == {k.event : k \in DOMAIN transitions}
KnownStates == {k.src : k \in DOMAIN transitions} \cup {transitions[k] : k \in DOMAIN transitions}

Registered(name, target, callbackType) ==
    /\ cKey(target, callbackType) \in DOMAIN callbacks
    /\ callbacks[cKey(target, callbackType)] = name

C5_NameResolution ==
    /\ supplied = PrefixedNames =>
        /\ \A E \in KnownEvents \ {empty} :
              /\ Registered(before_ \o E, E, callbackBeforeEvent)
              /\ Registered(after_ \o E, E, callbackAfterEvent)
        /\ \A S \in KnownStates :
              /\ Registered(leave_ \o S, S, callbackLeaveState)
              /\ Registered(enter_ \o S, S, callbackEnterState)
        /\ Registered(leave_ \o state, empty, callbackLeaveState)
        /\ Registered(enter_ \o state, empty, callbackEnterState)
        /\ empty \notin KnownEvents =>
              /\ Registered(before_ \o event, empty, callbackBeforeEvent)
              /\ Registered(after_ \o event, empty, callbackAfterEvent)
    /\ supplied = BareNames =>
        /\ \A S \in KnownStates : Registered(S, S, callbackEnterState)
        /\ \A E \in KnownEvents \ States : Registered(E, E, callbackAfterEvent)

(* C6: when a before-event or leave-state callback calls Cancel, Event     *)
(* returns CanceledError carrying the context's error (the one the         *)
(* callback attached, when it attached one), Current() is unchanged, no    *)
(* enter-state or after-event callback runs and no transition is left      *)
(* pending: the next Event call is not rejected with InTransitionError.    *)
Canceller(c) ==
    /\ c.callbackType \in {callbackBeforeEvent, callbackLeaveState}
    /\ c.did \in Cancels

C6_Case == EventCalled /\ \E i \in DOMAIN last.log : Canceller(last.log[i])

C6_CancelAborts ==
    C6_Case =>
        /\ last.ret.kind = "CanceledError"
        /\ last.ret.Err = last.e.Err
        /\ (\E i \in DOMAIN last.log : last.log[i].did = "Cancel(err)") => last.ret.Err = CbErr
        /\ current = last.cur0
        /\ Invoked({callbackEnterState, callbackAfterEvent}) = <<>>
        /\ transition = <<>>
        /\ NotInTransition

\* A leave-state callback cancelled a state-changing event with an error.
C6_Witness ==
    /\ C6_Case
    /\ last.log[Len(last.log)].callbackType = callbackLeaveState
    /\ last.ret = ErrorOf("CanceledError", CbErr)
    /\ transitions[LookedUp] # current

\* A before-event callback cancelled.
C6_WitnessBefore ==
    /\ C6_Case
    /\ last.log[Len(last.log)].callbackType = callbackBeforeEvent
    /\ last.ret.kind = "CanceledError"

(* C7: when a leave-state callback calls Async and none cancels, Event     *)
(* returns AsyncError, Current() stays the source state and the transition *)
(* stays pending; while it is pending every Event call returns             *)
(* InTransitionError, invokes no callback and changes neither Current()    *)
(* nor the pending transition, and Can is false for every event.           *)
C7_Deferred ==
    /\ EventCalled
    /\ \E i \in DOMAIN last.log :
          /\ last.log[i].callbackType = callbackLeaveState
          /\ last.log[i].did = "Async()"

C7_CalledWhilePending == last.op = "Event" /\ last.tr0 # <<>>

C7_AsyncParksTheMachine ==
    /\ C7_Deferred =>
          /\ last.ret.kind = "AsyncError"
          /\ current = last.cur0
          /\ transition # <<>>
          /\ transition[1].dst = transitions[LookedUp]
    /\ C7_CalledWhilePending =>
          /\ last.ret.kind = "InTransitionError"
          /\ last.log = <<>>
          /\ current = last.cur0
          /\ transition = last.tr0
    /\ transition # <<>> => \A ev \in CallNames : ~Can(ev) /\ Cannot(ev)

\* An Event call made while a deferred transition was pending.
C7_Witness ==
    /\ C7_CalledWhilePending
    /\ last.ret.kind = "InTransitionError"
    /\ last.tr0[1].e.async
    /\ eKey(last.arg, current) \in DOMAIN transitions

\* The call that deferred the transition.
C7_WitnessDeferred == C7_Deferred /\ last.ret.kind = "AsyncError"

(* C8: the resume operation commits a deferred transition: afterwards      *)
(* Current() is the deferred destination, the enter-state and after-event  *)
(* callbacks registered for it have each run once (enter before after,     *)
(* specific before wildcard) and nothing else has, the pending slot is     *)
(* empty and Event calls are accepted again; a resume with nothing pending *)
(* fails with NotInTransitionError and changes nothing.                    *)
C8_Resumed == last.op = "ResumeTransition" /\ last.tr0 # <<>>

\* The callbacks a commit of the closure has to run, in order.
C8_Due(closure) ==
    LET lookups == << <<cKey(closure.dst, callbackEnterState), "specific">>,
                      <<cKey(empty, callbackEnterState), "wildcard">>,
                      <<cKey(closure.e.Event, callbackAfterEvent), "specific">>,
                      <<cKey(empty, callbackAfterEvent), "wildcard">> >>
        due == SelectSeq(lookups, LAMBDA l : l[1] \in DOMAIN callbacks)
    IN [i \in DOMAIN due |->
          [fn |-> callbacks[due[i][1]], callbackType |-> due[i][1].callbackType, slot |-> due[i][2]]]

C8_WitnessNothingPending ==
    last.op = "ResumeTransition" /\ last.ret.kind = "NotInTransitionError"

(* C9, as claimed: Event(event) with a table entry whose destination is    *)
(* Current() invokes no leave-state or enter-state callback, returns       *)
(* NoTransitionError wrapping the context's error, leaves Current()        *)
(* unchanged and leaves no transition pending.                             *)
C9_Case ==
    /\ EventCalled
    /\ LookedUp \in DOMAIN transitions
    /\ transitions[LookedUp] = last.cur0

C10_AvailableTransitions ==
    \A result \in AvailableTransitions :
        /\ Range(result) = {ev \in CallNames : eKey(ev, current) \in DOMAIN transitions}
        /\ Len(result) = Cardinality(Range(result))

\* After a state change, two events are available, in either order.
C10_Witness ==
    /\ last.op = "Event"
    /\ current # last.cur0
    /\ Cardinality(AvailableTransitions) = 2
    /\ \A result \in AvailableTransitions : Len(result) = 2

(* C11: in every reachable state Can(event) is true iff (event, Current()) *)
(* is a key of the transition table and no transition is pending, and      *)
(* Cannot(event) is its negation; and an Event(event) called, with nothing *)
(* else running, in a state where Can(event) was true is not rejected with *)
(* InTransitionError, InvalidEventError or UnknownEventError.              *)
C11_CouldFire ==
    /\ last.op = "Event"
    /\ LookedUp \in DOMAIN transitions
    /\ last.tr0 = <<>>

C11_CanFire ==
    /\ \A ev \in CallNames :
         /\ Can(ev) <=> (eKey(ev, Current) \in DOMAIN transitions /\ transition = <<>>)
         /\ Cannot(ev) <=> ~Can(ev)
    /\ C11_CouldFire =>
         last.ret.kind \notin {"InTransitionError", "InvalidEventError", "UnknownEventError"}

\* Can was true, Event was called and went on to its callbacks; now a
\* transition is pending, the table still has an entry for the state, and
\* Can answers false.
C11_Witness ==
    /\ C11_CouldFire
    /\ last.log # <<>>
    /\ transition # <<>>
    /\ \E ev \in CallNames : eKey(ev, Current) \in DOMAIN transitions /\ Cannot(ev)

(* C15: the current state has a single writer.  Every step that changes    *)
(* what Current() returns is the commit of a pending transition (inside    *)
(* Event, or by the resume), and the new value is the destination of the   *)
(* table entry for the event that was triggered and the previous state.    *)
C15_Commit ==
    /\ last'.op \in {"Event", "ResumeTransition"}
    /\ transition' = <<>>
    /\ eKey(last'.e.Event, current) \in DOMAIN transitions
    /\ current' = transitions[eKey(last'.e.Event, current)]

C15_SingleWriter == [][current' # current => C15_Commit]_vars

(* C16: the pending-transition slot is empty during every before-event     *)
(* callback, empty once the current state has been set to the destination  *)
(* (so during every enter-state and after-event callback), and empty       *)
(* whenever no Event call is in progress and no async deferral is          *)
(* outstanding.                                                            *)
C16_Late == {callbackEnterState, callbackAfterEvent}

\* No call is running between two steps; a deferral is outstanding from the
\* Event that returned AsyncError until a commit.
C16_Deferred ==
    \/ last.op = "Event" /\ last.ret.kind \in {"AsyncError", "InTransitionError"}
    \/ last.op = "SetState" /\ last.tr0 # <<>>

C16_PendingSlot ==
    /\ \A i \in DOMAIN last.log :
         /\ last.log[i].callbackType = callbackBeforeEvent => ~last.log[i].pending
         /\ (last.log[i].callbackType \in C16_Late /\ last.log[i].Current = last.e.Dst)
                => ~last.log[i].pending
    /\ transition # <<>> => C16_Deferred

(* C18: the state is written between the leave-state and the enter-state   *)
(* phase.  During every before-event and leave-state callback Current()    *)
(* returns the transition's source state; during every enter-state and     *)
(* after-event callback of a state-changing transition it returns the      *)
(* destination state.                                                      *)
C18_Early == {callbackBeforeEvent, callbackLeaveState}

C18_MutationBetweenLeaveAndEnter ==
    \A i \in DOMAIN last.log :
        /\ last.log[i].callbackType \in C18_Early => last.log[i].Current = last.e.Src
        /\ (last.log[i].callbackType \in C16_Late /\ last.e.Dst # last.e.Src)
               => last.log[i].Current = last.e.Dst

\* A state-changing Event that ran a callback before and a callback after
\* the state was written.
C18_Witness ==
    /\ last.op = "Event"
    /\ last.e.Dst # last.e.Src
    /\ \E i, j \in DOMAIN last.log :
         /\ last.log[i].callbackType \in C18_Early
         /\ last.log[j].callbackType \in C16_Late
         /\ last.log[i].Current # last.log[j].Current

----------------------------------------------------------------------------
(* Vocabulary of the properties of the goroutines *)

\* The goroutine is in Event, past m.eventMu.Lock() and not yet returned.
InEvent(g) == goroutines[g].op = "Event" /\ goroutines[g].pc # "L147"

\* The goroutine is inside fn(e).
InCallback(g) == goroutines[g].pc \in {"fn", "fn.L98", "fn.L100"}

\* The goroutine's Event call is about to return what a call made alone, on
\* the machine as this call found it, can return, leaving the machine as
\* that call can leave it.
Serial(g) ==
    \E r \in EventResultsFrom(goroutines[g].cur0, goroutines[g].tr0, goroutines[g].arg) :
        /\ r.err = goroutines[g].err
        /\ r.e = goroutines[g].e
        /\ r.cur = current
        /\ r.tr = transition

(* C12: Event calls made by several goroutines are serialized.  At most    *)
(* one goroutine is between its pending-transition check and its return,   *)
(* so at most one is inside a callback; and every call returns the error   *)
(* and leaves the state that the same call made alone, on the machine as   *)
(* it found it, returns and leaves (no SetState having written meanwhile). *)
C12_EventSerialization ==
    /\ \A g, h \in Goroutines : (InEvent(g) /\ InEvent(h)) => g = h
    /\ \A g, h \in Goroutines : (InCallback(g) /\ InCallback(h)) => g = h
    /\ \A g \in Goroutines :
         (At(g, "L148") /\ ~goroutines[g].disturbed) => Serial(g)

\* A call that changed the state is about to return nil while the other
\* trigger's call waits for the event lock.
C12_Witness ==
    \E g, h \in Triggers :
        /\ At(g, "L148")
        /\ ~goroutines[g].disturbed
        /\ goroutines[g].err = NoError
        /\ goroutines[g].e.Src # goroutines[g].e.Dst
        /\ current = goroutines[g].e.Dst
        /\ At(h, "L147")

(* C13: every write of m.current and of m.transition is made holding the   *)
(* state lock in write mode, every read of either holding it in read or    *)
(* write mode, and so no goroutine is about to read a field that another   *)
(* goroutine is about to write.                                            *)
Fields == {"current", "transition"}

C13_LockDiscipline ==
    \A g \in Goroutines : \A field \in Fields :
        /\ Writes(g, field) => HoldsWrite(g)
        /\ Reads(g, field) => (HoldsRead(g) \/ HoldsWrite(g))
        /\ \A h \in Goroutines \ {g} : ~(Writes(g, field) /\ Reads(h, field))

(* C14: the goroutine that triggers an event never holds the state lock in *)
(* write mode while a callback, of any phase, is invoked.  It holds the    *)
(* write lock only for the assignment of m.current (machine.go 185, 186)   *)
(* and has released it when the enter-state and after-event callbacks run. *)
C14_NoWriteLockInCallbacks ==
    \A g \in Triggers :
        /\ InCallback(g) => ~HoldsWrite(g)
        /\ HoldsWrite(g) => goroutines[g].pc \in {"L185", "L186"}
        /\ goroutines[g].pc \in EnterSlots \cup AfterSlots => stateMu.w # g

\* The committing call is inside an enter-state callback: the state has
\* been written with the write lock.
C14_Witness ==
    \E g \in Triggers :
        /\ InCallback(g)
        /\ goroutines[g].at \in EnterSlots
        /\ goroutines[g].path = "commit"
        /\ current = goroutines[g].dst
        /\ current # goroutines[g].e.Src

(* C17: in the synchronous path the commit never fails.  Whatever the      *)
(* other goroutines do (Event, the queries, SetState), no Event call       *)
(* returns InternalError: when a call reaches the commit, m.transition     *)
(* still holds the closure this call stored.                               *)
C17_CommitNeverFails ==
    \A g \in Goroutines :
        /\ goroutines[g].err.kind # "InternalError"
        /\ goroutines[g].pc \in {"T10", "L184", "L184.wait", "L185"} =>
             /\ transition # <<>>
             /\ transition[1].dst = goroutines[g].dst

\* A call has committed and is about to return nil; a SetState wrote the
\* state while the call was under way and the other trigger is waiting.
C17_Witness ==
    \E g, h \in Triggers :
        /\ At(g, "L148")
        /\ goroutines[g].path = "commit"
        /\ goroutines[g].err = NoError
        /\ goroutines[g].disturbed
        /\ At(h, "L147")

(* C20: lock balance.  On every return path of Event the goroutine holds   *)
(* neither the event lock nor the state lock once the call has returned,   *)
(* and it never releases a lock it does not hold: at every RUnlock it      *)
(* holds a read lock, at the Unlock of the closure the write lock, at the  *)
(* deferred eventMu.Unlock the event lock and nothing else.                *)
C20_LockBalance ==
    \A g \in Triggers :
        /\ At(g, "idle") =>
             eventMu # g /\ stateMu.readers[g] = 0 /\ stateMu.w # g
        /\ goroutines[g].pc \in {"L200", "L151"} => stateMu.readers[g] = 1
        /\ At(g, "fn.L100") => stateMu.readers[g] >= 1
        /\ At(g, "L186") => HoldsWrite(g)
        /\ At(g, "L148") =>
             eventMu = g /\ stateMu.readers[g] = 0 /\ stateMu.w # g

\* The path that gave up the read lock before the commit and took it again
\* by the deferred call: about to release the event lock, holding only it.
C20_Witness ==
    \E g \in Triggers :
        /\ At(g, "L148")
        /\ goroutines[g].path = "commit"
        /\ goroutines[g].err = NoError
        /\ eventMu = g
        /\ stateMu.readers[g] = 0

(* C19: every Event call eventually returns, whatever the other goroutines *)
(* do (Event, Current, Can, AvailableTransitions, SetState), when every    *)
(* callback returns and calls only the queries.  A call that returns is    *)
(* never stuck: it is never inside a callback's query waiting for a read   *)
(* lock behind a writer that is itself waiting for the read lock this call *)
(* holds.                                                                  *)
C19_Stuck(g) ==
    /\ At(g, "fn.L98")
    /\ HoldsRead(g)
    /\ stateMu.w \notin {Unlocked, g}
    /\ ~stateMu.writing

C19_EveryEventReturns == \A g \in Triggers : ~C19_Stuck(g)

====
